---------------------------- MODULE Spec2Model ----------------------------
(***************************************************************************)
(* Model of the staking-session bot of src/main.py: the per-user session   *)
(* dictionary (context.user_data), the balance and result handlers, the    *)
(* outcome enumerator and the session profit simulator.                    *)
(*                                                                         *)
(* Money is integer rupees.  The Python code computes in floats; every     *)
(* stake is a multiple of ten, so gross*TAX_RATE and the accumulated       *)
(* profit are exact integers and floor(x/10)*10 is computed on exact       *)
(* values.  A quotient num/den is carried as the pair (num, den) until     *)
(* the floor is taken.                                                     *)
(***************************************************************************)
EXTENDS Integers, Sequences, FiniteSets, TLC

\* ------------------------------------------------------------------------
\* Bounds of the model
\* ------------------------------------------------------------------------
MaxBuf == 1            \* longest keypad buffer explored
MaxSeq == 5            \* longest stored "seq" list explored
MaxBal == 1100         \* largest balance given to a calculation alone
MaxDays == 3           \* most days compounded
MaxExtra == 2          \* most tags appended to a terminal sequence

\* ------------------------------------------------------------------------
\* Configuration (main.py 32-48)
\* ------------------------------------------------------------------------
ADMIN_ID == "admin"
U1 == "u1"
Users == {ADMIN_ID, U1}
NonAdmins == Users \ {ADMIN_ID}

CASE1 == <<10, 10, 15, 30, 50>>
CASE2 == <<10, 25, 65>>
TAX_RATE_PCT == 10     \* TAX_RATE = 0.10, as a percentage

VARIABLES
    user_data,         \* user_data[u]: the dict context.user_data of user u
    BANNED_USERS,      \* in-memory set of banned ids
    AUTHORIZED_USERS,  \* in-memory set of authorized ids
    REVOKED_USERS,     \* ids whose stored revocation date is today
    SERVER_DOWN,       \* shutdown mode
    files,             \* the authorized, pending and revoked files on disk
    out,               \* out[u]: what the last handled event of u replied
    ghost,             \* ghost[u]: history of the session of u (not program state)
    calc               \* input and result of a stand-alone computation

vars == <<user_data, BANNED_USERS, AUTHORIZED_USERS, REVOKED_USERS, SERVER_DOWN, files, out, ghost, calc>>
authVars == <<BANNED_USERS, AUTHORIZED_USERS, REVOKED_USERS, SERVER_DOWN, files>>

\* ------------------------------------------------------------------------
\* Python dict operations on context.user_data
\* ------------------------------------------------------------------------
EmptyDict == [k \in {} |-> 0]

Get(d, k, default) == IF k \in DOMAIN d THEN d[k] ELSE default

Put(d, k, v) == [x \in (DOMAIN d) \cup {k} |-> IF x = k THEN v ELSE d[x]]

Pop(d, k) == [x \in (DOMAIN d) \ {k} |-> d[x]]

\* ------------------------------------------------------------------------
\* UTILS (main.py 250-255)
\* ------------------------------------------------------------------------
\* floor((num/den) / 10) * 10 ; \div rounds toward minus infinity
nearest_ten_q(num, den) == (num \div (den * 10)) * 10

\* mutant: the multiple of ten strictly below the floor
nearest_ten_below(value) == nearest_ten_q(value, 1) - 10

nearest_ten(value) == nearest_ten_q(value, 1)

\* mutant: the balance is floored to ten before the multiplication
percent_of_floor_first(balance, pct) == (nearest_ten(balance) * pct) \div 100

\* mutant: the stake is not floored to ten
percent_of_unrounded(balance, pct) == (balance * pct) \div 100

percent_of(balance, pct) == nearest_ten_q(balance * pct, 100)

_is_admin(user_id) == user_id = ADMIN_ID

is_authorized(user_id, authorized) == _is_admin(user_id) \/ user_id \in authorized

is_revoked_today(user_id, revoked) == user_id \in revoked

\* mutant: the tax is taken twice
TaxOf_twice(gross_profit) == 2 * ((gross_profit * TAX_RATE_PCT) \div 100)

\* mutant: the whole gain is taxed away
TaxOf_all(gross_profit) == gross_profit

\* tax on the gross profit of a winning leg: gross_profit * TAX_RATE
TaxOf(gross_profit) == (gross_profit * TAX_RATE_PCT) \div 100


\* ------------------------------------------------------------------------
\* Texts a user can type or tap (sequences of characters)
\* ------------------------------------------------------------------------
Digits == {"0", "1", "2", "3", "4", "5", "6", "7", "8", "9"}

DigitVal(c) ==
    CASE c = "0" -> 0 [] c = "1" -> 1 [] c = "2" -> 2 [] c = "3" -> 3
      [] c = "4" -> 4 [] c = "5" -> 5 [] c = "6" -> 6 [] c = "7" -> 7
      [] c = "8" -> 8 [] c = "9" -> 9

\* str.upper() on the letters the sample texts use
UpperChar(c) ==
    CASE c = "k" -> "K" [] c = "a" -> "A" [] OTHER -> c

Upper(s) == [i \in 1..Len(s) |-> UpperChar(s[i])]

\* str.isdigit(): non-empty and digits only
IsDigit(s) == Len(s) > 0 /\ \A i \in 1..Len(s) : s[i] \in Digits

\* s.replace(".", "", 1): drop the first dot
RemoveFirstDot(s) ==
    IF \E i \in 1..Len(s) : s[i] = "."
    THEN LET p == CHOOSE i \in 1..Len(s) : s[i] = "." /\ \A j \in 1..(i-1) : s[j] # "."
         IN  SubSeq(s, 1, p - 1) \o SubSeq(s, p + 1, Len(s))
    ELSE s

RECURSIVE DigitsToNat(_)
DigitsToNat(s) ==
    IF Len(s) = 0 THEN 0
    ELSE 10 * DigitsToNat(SubSeq(s, 1, Len(s) - 1)) + DigitVal(s[Len(s)])

\* digits before the first dot (all of s when it has no dot)
BeforeDot(s) ==
    IF \E i \in 1..Len(s) : s[i] = "."
    THEN SubSeq(s, 1, (CHOOSE i \in 1..Len(s) : s[i] = "." /\ \A j \in 1..(i-1) : s[j] # ".") - 1)
    ELSE s

\* the three digits after the first dot, padded with zeros
AfterDot3(s) ==
    IF \E i \in 1..Len(s) : s[i] = "."
    THEN LET p == CHOOSE i \in 1..Len(s) : s[i] = "." /\ \A j \in 1..(i-1) : s[j] # "."
             f == SubSeq(s, p + 1, Len(s)) \o <<"0", "0", "0">>
         IN  SubSeq(f, 1, 3)
    ELSE <<"0", "0", "0">>

\* float(s) succeeds, for s over digits, ".", "-" and letters: an optional
\* leading "-", then digits with at most one dot and at least one digit
FloatOK(s) ==
    LET body == IF Len(s) > 0 /\ s[1] = "-" THEN Tail(s) ELSE s
    IN  IsDigit(RemoveFirstDot(body))

\* int(float(s) * 1000) for s with FloatOK(s): truncation toward zero
TimesThousand(s) ==
    LET neg  == Len(s) > 0 /\ s[1] = "-"
        body == IF neg THEN Tail(s) ELSE s
        mag  == DigitsToNat(BeforeDot(body)) * 1000 + DigitsToNat(AfterDot3(body))
    IN  IF neg THEN 0 - mag ELSE mag

\* The shared number parsing of process_balance (main.py 437-449 for the
\* buffer, 476-488 for typed text): result [ok, why, value]; value is
\* floor(float(txt)), which is all nearest_ten reads of it.
ParseNumber(text) ==
    LET t == Upper(text)
        isK == Len(t) > 0 /\ t[Len(t)] = "K"
        kBody == SubSeq(t, 1, Len(t) - 1)
    IN  IF isK /\ ~FloatOK(kBody)
        THEN [ok |-> FALSE, why |-> "bad_k", value |-> 0]
        ELSE IF isK
        THEN \* raw = str(int(num * 1000)); isdigit() fails on a minus sign
             IF TimesThousand(kBody) < 0
             THEN [ok |-> FALSE, why |-> "not_digits", value |-> 0]
             ELSE [ok |-> TRUE, why |-> "", value |-> TimesThousand(kBody)]
        ELSE IF ~IsDigit(RemoveFirstDot(t))
        THEN [ok |-> FALSE, why |-> "not_digits", value |-> 0]
        ELSE [ok |-> TRUE, why |-> "", value |-> DigitsToNat(BeforeDot(t))]

TokClear == <<"C", "L", "E", "A", "R">>
TokEnter == <<"E", "N", "T", "E", "R">>
Tok1K    == <<"1", "K">>
Tok10K   == <<"1", "0", "K">>
Tok10    == <<"1", "0">>
Tok100   == <<"1", "0", "0">>

\* keypad taps and typed texts explored
KeypadTexts == {TokClear, TokEnter, <<"5">>, <<"0">>}
TypedTexts ==
    { <<"5", "0", "0">>, <<"1", "0", "0", "5">>, <<".", "5", "k">>,
      <<"a">>, <<"-", "5">>, <<"-", "1", "k">>,
      <<"-", ".", "0", "0", "0", "9", "k">> }
Texts == KeypadTexts \cup TypedTexts

\* the typed texts explored where two activities interleave
TextsTwo == { <<"5", "0", "0">>, <<"a">> }


\* ------------------------------------------------------------------------
\* Simulation and enumeration (main.py 517-593)
\* ------------------------------------------------------------------------
\* mutant: the two schedules are exchanged
Percentages_swapped(path) == IF path = "case1" THEN CASE2 ELSE CASE1

Percentages(path) == IF path = "case1" THEN CASE1 ELSE CASE2

\* mutant: no break after a win in a later round
RECURSIVE SimLoop_no_stop(_, _, _, _, _)
SimLoop_no_stop(base_balance, outcomes, percentages, i, profit) ==
    IF i > Len(outcomes) THEN profit
    ELSE LET round_no == i
         IN  IF round_no > Len(percentages) THEN profit
             ELSE LET pct    == percentages[round_no]
                      invest == nearest_ten_q(base_balance * pct, 100)
                  IN  IF outcomes[i] = "W"
                      THEN LET gross_profit == invest
                               tax == TaxOf(gross_profit)
                               net == gross_profit - tax
                           IN  SimLoop_no_stop(base_balance, outcomes, percentages, i + 1, profit + net)
                      ELSE SimLoop_no_stop(base_balance, outcomes, percentages, i + 1, profit - invest)

\* The for loop of simulate_session_profit_for_path from index i on, with
\* the profit accumulated so far; the two breaks end the recursion.
RECURSIVE SimLoop(_, _, _, _, _)
SimLoop(base_balance, outcomes, percentages, i, profit) ==
    IF i > Len(outcomes) THEN profit
    ELSE LET round_no == i
         IN  IF round_no > Len(percentages) THEN profit
             ELSE LET pct    == percentages[round_no]
                      invest == nearest_ten_q(base_balance * pct, 100)
                  IN  IF outcomes[i] = "W"
                      THEN LET gross_profit == invest
                               tax == TaxOf(gross_profit)
                               net == gross_profit - tax
                           IN  IF round_no > 1 THEN profit + net
                               ELSE SimLoop(base_balance, outcomes, percentages, i + 1, profit + net)
                      ELSE SimLoop(base_balance, outcomes, percentages, i + 1, profit - invest)

\* mutant: the profit accumulates on the stored profit of the live session
simulate_on_live_profit(base_balance, outcomes) ==
    LET path == IF outcomes[1] = "W" THEN "case1" ELSE "case2"
        percentages == Percentages(path)
    IN  nearest_ten(SimLoop(base_balance, outcomes, percentages, 1,
                            Get(user_data[U1], "Profit", 0)))

simulate_session_profit_for_path(base_balance, outcomes) ==
    LET path == IF outcomes[1] = "W" THEN "case1" ELSE "case2"
        percentages == Percentages(path)
    IN  nearest_ten(SimLoop(base_balance, outcomes, percentages, 1, 0))

\* mutant: a win ends a sequence in round 1 too
RECURSIVE rec_win_round1(_)
rec_win_round1(seq) ==
    IF Len(seq) >= 1 /\ seq[Len(seq)] = "W" /\ Len(seq) >= 1
    THEN <<seq>>
    ELSE IF Len(seq) = 0
    THEN rec_win_round1(seq \o <<"W">>) \o rec_win_round1(seq \o <<"L">>)
    ELSE LET path == IF seq[1] = "W" THEN "case1" ELSE "case2"
             max_len == IF path = "case1" THEN Len(CASE1) ELSE Len(CASE2)
         IN  IF Len(seq) >= max_len
             THEN <<seq>>
             ELSE rec_win_round1(seq \o <<"W">>) \o rec_win_round1(seq \o <<"L">>)

\* mutant: both cases are enumerated to the length of CASE1
RECURSIVE rec_one_length(_)
rec_one_length(seq) ==
    IF Len(seq) >= 1 /\ seq[Len(seq)] = "W" /\ Len(seq) > 1
    THEN <<seq>>
    ELSE IF Len(seq) = 0
    THEN rec_one_length(seq \o <<"W">>) \o rec_one_length(seq \o <<"L">>)
    ELSE LET max_len == Len(CASE1)
         IN  IF Len(seq) >= max_len
             THEN <<seq>>
             ELSE rec_one_length(seq \o <<"W">>) \o rec_one_length(seq \o <<"L">>)

\* rec(seq) of generate_possible_outcome_sequences: the sequences it appends
\* to the list, in order
RECURSIVE rec(_)
rec(seq) ==
    IF Len(seq) >= 1 /\ seq[Len(seq)] = "W" /\ Len(seq) > 1
    THEN <<seq>>
    ELSE IF Len(seq) = 0
    THEN rec(seq \o <<"W">>) \o rec(seq \o <<"L">>)
    ELSE LET path == IF seq[1] = "W" THEN "case1" ELSE "case2"
             max_len == IF path = "case1" THEN Len(CASE1) ELSE Len(CASE2)
         IN  IF Len(seq) >= max_len
             THEN <<seq>>
             ELSE rec(seq \o <<"W">>) \o rec(seq \o <<"L">>)

generate_possible_outcome_sequences ==
    SelectSeq(rec(<<>>), LAMBDA s : s # <<>>)

\* list of (sequence, profit) pairs, in enumeration order
compute_all_session_profits(base_balance) ==
    LET seqs == generate_possible_outcome_sequences
    IN  [i \in 1..Len(seqs) |->
            <<seqs[i], simulate_session_profit_for_path(base_balance, seqs[i])>>]

RECURSIVE SumSeq(_)
SumSeq(list) ==
    IF Len(list) = 0 THEN 0 ELSE SumSeq(SubSeq(list, 1, Len(list) - 1)) + list[Len(list)]

\* min(profits) of a non-empty list
MinOf(profits) ==
    CHOOSE m \in {profits[i] : i \in 1..Len(profits)} :
        \A i \in 1..Len(profits) : m <= profits[i]

\* mutant: the average is taken over all profits, the worst included
compute_weighted_daily_profit_avg_all(base_balance) ==
    LET all_profits == compute_all_session_profits(base_balance)
        profits == [i \in 1..Len(all_profits) |-> all_profits[i][2]]
        worst   == MinOf(profits)
    IN  IF Len(all_profits) = 0 THEN 0
        ELSE nearest_ten_q(4 * worst * Len(profits) + SumSeq(profits), 5 * Len(profits))

\* mutant: the worst case weighs 1.2 instead of 0.8
compute_weighted_daily_profit_heavier(base_balance) ==
    LET all_profits == compute_all_session_profits(base_balance)
        profits == [i \in 1..Len(all_profits) |-> all_profits[i][2]]
        worst   == MinOf(profits)
        others  == SelectSeq(profits, LAMBDA x : x # worst)
    IN  IF Len(all_profits) = 0 THEN 0
        ELSE IF Len(others) > 0
        THEN nearest_ten_q(6 * worst * Len(others) + SumSeq(others), 5 * Len(others))
        ELSE nearest_ten(worst)

\* weighted = 0.8 * worst + 0.2 * avg_others, as the quotient
\* (4 * worst * len(others) + sum(others)) / (5 * len(others))
compute_weighted_daily_profit(base_balance) ==
    LET all_profits == compute_all_session_profits(base_balance)
        profits == [i \in 1..Len(all_profits) |-> all_profits[i][2]]
        worst   == MinOf(profits)
        others  == SelectSeq(profits, LAMBDA x : x # worst)
    IN  IF Len(all_profits) = 0 THEN 0
        ELSE IF Len(others) > 0
        THEN nearest_ten_q(4 * worst * Len(others) + SumSeq(others), 5 * Len(others))
        ELSE nearest_ten(worst)

\* mutant: every day's profit is the one of the starting balance
RECURSIVE compound_days_from_start(_, _)
compound_days_from_start(start_balance, days) ==
    IF days = 0 THEN start_balance
    ELSE nearest_ten(compound_days_from_start(start_balance, days - 1)
                     + compute_weighted_daily_profit(start_balance))

\* mutant: a day is simulated even when days is zero
RECURSIVE compound_days_one_more(_, _)
compound_days_one_more(start_balance, days) ==
    IF days = 0
    THEN nearest_ten(start_balance + compute_weighted_daily_profit(start_balance))
    ELSE LET b == compound_days_one_more(start_balance, days - 1)
         IN  nearest_ten(b + compute_weighted_daily_profit(b))

\* compound_days of estimate_cmd: b after the loop has run days times
RECURSIVE compound_days(_, _)
compound_days(start_balance, days) ==
    IF days = 0 THEN start_balance
    ELSE LET b == compound_days(start_balance, days - 1)
         IN  nearest_ten(b + compute_weighted_daily_profit(b))

\* sorted(all_profits, key=profit): stable insertion of x into a sorted list
RECURSIVE InsertByProfit(_, _)
InsertByProfit(sorted, x) ==
    IF Len(sorted) = 0 THEN <<x>>
    ELSE IF sorted[Len(sorted)][2] <= x[2] THEN Append(sorted, x)
    ELSE Append(InsertByProfit(SubSeq(sorted, 1, Len(sorted) - 1), x), sorted[Len(sorted)])

RECURSIVE SortedByProfit(_)
SortedByProfit(list) ==
    IF Len(list) = 0 THEN <<>>
    ELSE InsertByProfit(SortedByProfit(SubSeq(list, 1, Len(list) - 1)), list[Len(list)])

\* the remark of handle_result (main.py 662-679)
Remark(base_balance, seq_list) ==
    LET all_profits == compute_all_session_profits(base_balance)
        sorted_by_profit == SortedByProfit(all_profits)
        worst_seq == IF Len(all_profits) > 0 THEN sorted_by_profit[1][1] ELSE <<>>
        best_seq  == IF Len(all_profits) > 0 THEN sorted_by_profit[Len(sorted_by_profit)][1] ELSE <<>>
    IN  IF seq_list = worst_seq THEN "Worst possible scenario"
        ELSE IF seq_list = best_seq THEN "Best possible scenario"
        ELSE "Moderate performance"


\* ------------------------------------------------------------------------
\* The files behind the in-memory sets (main.py 172-243)
\* ------------------------------------------------------------------------
\* the module loads its sets from the files when the process starts:
\* the files hold what the sets hold
LoadedFiles ==
    [authorized |-> AUTHORIZED_USERS, pending |-> {}, revoked |-> REVOKED_USERS]

\* ------------------------------------------------------------------------
\* Guards shared by the handlers (main.py 296-365)
\* ------------------------------------------------------------------------
\* reject_if_banned: True when the event must be dropped
\* mutant: the admin can be banned like anyone else
reject_if_banned_admin_too(u) == u \in BANNED_USERS

reject_if_banned(u) == ~_is_admin(u) /\ u \in BANNED_USERS

\* server_block_check
server_block_check(u) == SERVER_DOWN /\ ~_is_admin(u)

\* require_authorization: "" when the user may go on, else the reply sent
require_authorization(u) ==
    IF _is_admin(u) THEN ""
    ELSE IF u \in BANNED_USERS THEN "banned"
    ELSE IF is_revoked_today(u, REVOKED_USERS) THEN "revoked"
    ELSE IF ~is_authorized(u, AUTHORIZED_USERS) THEN "no_auth"
    ELSE ""

Msg(kind) == [kind |-> kind]

NoGhost == [started |-> FALSE, fresh |-> FALSE, ended |-> FALSE, results |-> <<>>, base |-> 0]

\* ------------------------------------------------------------------------
\* /start (main.py 372-401)
\* ------------------------------------------------------------------------
\* start_game_flow: user_data.clear(); input_buffer = ""
start_game_flow(d) == Put(EmptyDict, "input_buffer", <<>>)

start_game(u) ==
    /\ UNCHANGED <<authVars, calc>>
    /\ IF reject_if_banned(u)
       THEN /\ out' = [out EXCEPT ![u] = Msg("banned")]
            /\ UNCHANGED <<user_data, ghost>>
       ELSE IF server_block_check(u)
       THEN /\ out' = [out EXCEPT ![u] = Msg("shutdown")]
            /\ UNCHANGED <<user_data, ghost>>
       ELSE IF require_authorization(u) # ""
       THEN /\ out' = [out EXCEPT ![u] = Msg(require_authorization(u))]
            /\ UNCHANGED <<user_data, ghost>>
       ELSE /\ user_data' = [user_data EXCEPT ![u] = start_game_flow(user_data[u])]
            /\ out' = [out EXCEPT ![u] = Msg("game_started")]
            /\ ghost' = [ghost EXCEPT ![u] = NoGhost]

\* ------------------------------------------------------------------------
\* /clear (main.py 1189-1199)
\* ------------------------------------------------------------------------
\* mutant: /clear empties the data of every user
clear_everyone(u) ==
    /\ UNCHANGED <<authVars, calc>>
    /\ IF reject_if_banned(u)
       THEN /\ out' = [out EXCEPT ![u] = Msg("banned")]
            /\ UNCHANGED <<user_data, ghost>>
       ELSE IF server_block_check(u)
       THEN /\ out' = [out EXCEPT ![u] = Msg("shutdown")]
            /\ UNCHANGED <<user_data, ghost>>
       ELSE IF require_authorization(u) # ""
       THEN /\ out' = [out EXCEPT ![u] = Msg(require_authorization(u))]
            /\ UNCHANGED <<user_data, ghost>>
       ELSE /\ user_data' = [v \in Users |-> EmptyDict]
            /\ out' = [out EXCEPT ![u] = Msg("cleared")]
            /\ ghost' = [ghost EXCEPT ![u] = NoGhost]

clear(u) ==
    /\ UNCHANGED <<authVars, calc>>
    /\ IF reject_if_banned(u)
       THEN /\ out' = [out EXCEPT ![u] = Msg("banned")]
            /\ UNCHANGED <<user_data, ghost>>
       ELSE IF server_block_check(u)
       THEN /\ out' = [out EXCEPT ![u] = Msg("shutdown")]
            /\ UNCHANGED <<user_data, ghost>>
       ELSE IF require_authorization(u) # ""
       THEN /\ out' = [out EXCEPT ![u] = Msg(require_authorization(u))]
            /\ UNCHANGED <<user_data, ghost>>
       ELSE /\ user_data' = [user_data EXCEPT ![u] = EmptyDict]
            /\ out' = [out EXCEPT ![u] = Msg("cleared")]
            /\ ghost' = [ghost EXCEPT ![u] = NoGhost]

\* ------------------------------------------------------------------------
\* Balance entry (main.py 404-510)
\* ------------------------------------------------------------------------
\* mutant: the round-1 stake is not added when the round is announced
StartSession_stake_later(d, value) ==
    LET balance == nearest_ten(value)
        d1 == Put(d,  "BaseBalance", balance)
        d2 == Put(d1, "Round", 1)
        d3 == Put(d2, "Path", "None")
        d4 == Put(d3, "Wins", 0)
        d5 == Put(d4, "Losses", 0)
        d6 == Put(d5, "TotalPlaced", 0)
        d7 == Put(d6, "Profit", 0)
        d8 == Put(d7, "input_buffer", <<>>)
        investment == percent_of(balance, CASE1[1])
        d9 == d8
    IN  [d |-> d9, accepted |-> TRUE,
         out |-> [kind |-> "round", from |-> "balance", round |-> 1,
                  stake |-> investment, pct |-> CASE1[1], base |-> balance]]

\* mutant: an accepted balance keeps the round of the session before
StartSession_keeps_round(d, value) ==
    LET balance == nearest_ten(value)
        d1 == Put(d,  "BaseBalance", balance)
        d2 == Put(d1, "Round", Get(d, "Round", 1))
        d3 == Put(d2, "Path", "None")
        d4 == Put(d3, "Wins", 0)
        d5 == Put(d4, "Losses", 0)
        d6 == Put(d5, "TotalPlaced", 0)
        d7 == Put(d6, "Profit", 0)
        d8 == Put(d7, "input_buffer", <<>>)
        investment == percent_of(balance, CASE1[1])
        d9 == Put(d8, "TotalPlaced", d8["TotalPlaced"] + investment)
    IN  [d |-> d9, accepted |-> TRUE,
         out |-> [kind |-> "round", from |-> "balance", round |-> 1,
                  stake |-> investment, pct |-> CASE1[1], base |-> balance]]

\* "final validation & start session" (main.py 490-510) on the parsed value:
\* the new dict and the round-1 announcement
StartSession(d, value) ==
    LET balance == nearest_ten(value)
        d1 == Put(d,  "BaseBalance", balance)
        d2 == Put(d1, "Round", 1)
        d3 == Put(d2, "Path", "None")
        d4 == Put(d3, "Wins", 0)
        d5 == Put(d4, "Losses", 0)
        d6 == Put(d5, "TotalPlaced", 0)
        d7 == Put(d6, "Profit", 0)
        d8 == Put(d7, "input_buffer", <<>>)
        investment == percent_of(balance, CASE1[1])
        d9 == Put(d8, "TotalPlaced", d8["TotalPlaced"] + investment)
    IN  [d |-> d9, accepted |-> TRUE,
         out |-> [kind |-> "round", from |-> "balance", round |-> 1,
                  stake |-> investment, pct |-> CASE1[1], base |-> balance]]

Reply(d, kind) == [d |-> d, accepted |-> FALSE, out |-> Msg(kind)]

\* the body of process_balance after the access checks (main.py 425-510)
BalanceInput(d, text) ==
    LET buf   == Get(d, "input_buffer", <<>>)
        token == Upper(text)
    IN  IF token = TokClear
        THEN Reply(Put(d, "input_buffer", <<>>), "buffer_cleared")
        ELSE IF token = TokEnter
        THEN LET raw == Get(d, "input_buffer", <<>>)
             IN  IF raw = <<>> THEN Reply(d, "buffer_empty")
                 ELSE IF ~ParseNumber(raw).ok THEN Reply(d, "invalid_buffer")
                 ELSE StartSession(d, ParseNumber(raw).value)
        ELSE IF token \in {Tok1K, Tok10K}
        THEN LET nbuf == IF token = Tok1K
                         THEN (IF buf = <<>> THEN <<"1", "0", "0", "0">>
                                             ELSE buf \o <<"0", "0", "0">>)
                         ELSE (IF buf = <<>> THEN <<"1", "0", "0", "0", "0">>
                                             ELSE buf \o <<"0", "0", "0", "0">>)
             IN  Reply(Put(d, "input_buffer", nbuf), "buffer")
        ELSE IF token \in {Tok10, Tok100}
        THEN Reply(Put(d, "input_buffer", buf \o token), "buffer")
        ELSE IF Len(token) = 1 /\ token[1] \in Digits
        THEN Reply(Put(d, "input_buffer", buf \o token), "buffer")
        ELSE IF ~ParseNumber(text).ok THEN Reply(d, "invalid_text")
        ELSE StartSession(d, ParseNumber(text).value)

process_balance(u, text) ==
    /\ UNCHANGED <<authVars, calc>>
    /\ IF reject_if_banned(u)
       THEN /\ out' = [out EXCEPT ![u] = Msg("banned")]
            /\ UNCHANGED <<user_data, ghost>>
       ELSE IF server_block_check(u)
       THEN /\ out' = [out EXCEPT ![u] = Msg("shutdown")]
            /\ UNCHANGED <<user_data, ghost>>
       ELSE IF ~_is_admin(u) /\ ~is_authorized(u, AUTHORIZED_USERS)
       THEN /\ out' = [out EXCEPT ![u] = Msg("no_auth")]
            /\ UNCHANGED <<user_data, ghost>>
       ELSE LET r == BalanceInput(user_data[u], text)
            IN  /\ Len(Get(r.d, "input_buffer", <<>>)) <= MaxBuf
                /\ user_data' = [user_data EXCEPT ![u] = r.d]
                /\ out' = [out EXCEPT ![u] = r.out]
                /\ ghost' = [ghost EXCEPT ![u] =
                       IF r.accepted
                       THEN [started |-> TRUE,
                             fresh |-> "seq" \notin DOMAIN user_data[u],
                             ended |-> FALSE, results |-> <<>>,
                             base |-> r.out.base]
                       ELSE @]


\* ------------------------------------------------------------------------
\* Round results (main.py 600-727)
\* ------------------------------------------------------------------------
\* callback data "r<k>_win" / "r<k>_lose" as <<k, suffix>>
\* the round named by the button is the first or the last of the long schedule
DataRounds == {1, Len(CASE1)}
ResultData == DataRounds \X {"win", "lose"}

\* data.endswith("_win")
EndsWithWin(data) == data[2] = "win"

\* mutant: the case is derived again from the result of every round
SelectPath_rederived(round_num, path, data) ==
    IF EndsWithWin(data) THEN "case1" ELSE "case2"

\* mutant: the long schedule is chosen whatever the first result is
SelectPath_always_case1(round_num, path, data) ==
    IF round_num = 1 THEN "case1" ELSE path

\* main.py 632-634: the case is chosen when round 1 is handled
SelectPath(round_num, path, data) ==
    IF round_num = 1
    THEN (IF EndsWithWin(data) THEN "case1" ELSE "case2")
    ELSE path

\* mutant: a win ends the session in round 1 too
SessionEnds_anywin(data, round_num, total_rounds) ==
    \/ EndsWithWin(data) /\ round_num >= 1
    \/ round_num >= total_rounds

\* mutant: only the end of the schedule ends the session
SessionEnds_only_length(data, round_num, total_rounds) ==
    round_num >= total_rounds

\* main.py 682 and 700: the two tests that end the session
SessionEnds(data, round_num, total_rounds) ==
    \/ EndsWithWin(data) /\ round_num > 1
    \/ round_num >= total_rounds

\* mutant: the base balance follows the profit of every round
ResultInput_rebased(d, data) ==
    LET base_balance == Get(d, "BaseBalance", 0)
        round_num    == Get(d, "Round", 1)
        path0        == Get(d, "Path", "None")
        total_placed == Get(d, "TotalPlaced", 0)
        profit0      == Get(d, "Profit", 0)
        wins0        == Get(d, "Wins", 0)
        losses0      == Get(d, "Losses", 0)
        path         == SelectPath(round_num, path0, data)
        d1           == IF round_num = 1 THEN Put(d, "Path", path) ELSE d
        percentages  == Percentages(path)
        total_rounds == Len(percentages)
        investment   == percent_of(base_balance, percentages[round_num])
        d2           == Put(d1, "TotalPlaced", total_placed + investment)
        wins         == IF EndsWithWin(data) THEN wins0 + 1 ELSE wins0
        losses       == IF EndsWithWin(data) THEN losses0 ELSE losses0 + 1
        gross_profit == investment
        tax          == TaxOf(gross_profit)
        net_profit   == gross_profit - tax
        profit       == IF EndsWithWin(data) THEN profit0 + net_profit
                                             ELSE profit0 - investment
        d3           == IF EndsWithWin(data) THEN Put(d2, "Wins", wins)
                                             ELSE Put(d2, "Losses", losses)
        d4           == Put(d3, "Profit", nearest_ten(profit))
        seq_list     == Append(Get(d, "seq", <<>>), IF EndsWithWin(data) THEN "W" ELSE "L")
        d5           == Put(d4, "seq", seq_list)
        all_profits  == compute_all_session_profits(base_balance)
        remark       == Remark(base_balance, seq_list)
        profit_after_tax == nearest_ten(profit)
        updated_balance  == nearest_ten(base_balance + profit_after_tax)
        next_round   == round_num + 1
        next_percent == percentages[next_round]
        invest_amount == percent_of(base_balance, next_percent)
        d6           == Put(d5, "Round", next_round)
        d7           == Put(Put(d6, "TotalPlaced", d6["TotalPlaced"] + invest_amount),
                            "BaseBalance", updated_balance)
    IN  IF SessionEnds(data, round_num, total_rounds)
        THEN [d |-> EmptyDict, terminal |-> TRUE,
              out |-> [kind |-> "summary", round |-> round_num, data |-> data[2],
                       path |-> path, base |-> base_balance,
                       wins |-> wins, losses |-> losses,
                       placed |-> d5["TotalPlaced"],
                       profit |-> nearest_ten(profit),
                       after_tax |-> nearest_ten(profit_after_tax),
                       balance |-> nearest_ten(updated_balance),
                       seq |-> seq_list, remark |-> remark,
                       all_profits |-> all_profits]]
        ELSE [d |-> d7, terminal |-> FALSE,
              out |-> [kind |-> "round", from |-> "result", round |-> next_round,
                       stake |-> invest_amount, pct |-> next_percent,
                       base |-> base_balance, data |-> data[2],
                       path |-> path, handled |-> round_num]]

\* the body of handle_result after the access checks (main.py 621-727)
ResultInput(d, data) ==
    LET base_balance == Get(d, "BaseBalance", 0)
        round_num    == Get(d, "Round", 1)
        path0        == Get(d, "Path", "None")
        total_placed == Get(d, "TotalPlaced", 0)
        profit0      == Get(d, "Profit", 0)
        wins0        == Get(d, "Wins", 0)
        losses0      == Get(d, "Losses", 0)
        path         == SelectPath(round_num, path0, data)
        d1           == IF round_num = 1 THEN Put(d, "Path", path) ELSE d
        percentages  == Percentages(path)
        total_rounds == Len(percentages)
        investment   == percent_of(base_balance, percentages[round_num])
        d2           == Put(d1, "TotalPlaced", total_placed + investment)
        wins         == IF EndsWithWin(data) THEN wins0 + 1 ELSE wins0
        losses       == IF EndsWithWin(data) THEN losses0 ELSE losses0 + 1
        gross_profit == investment
        tax          == TaxOf(gross_profit)
        net_profit   == gross_profit - tax
        profit       == IF EndsWithWin(data) THEN profit0 + net_profit
                                             ELSE profit0 - investment
        d3           == IF EndsWithWin(data) THEN Put(d2, "Wins", wins)
                                             ELSE Put(d2, "Losses", losses)
        d4           == Put(d3, "Profit", nearest_ten(profit))
        seq_list     == Append(Get(d, "seq", <<>>), IF EndsWithWin(data) THEN "W" ELSE "L")
        d5           == Put(d4, "seq", seq_list)
        all_profits  == compute_all_session_profits(base_balance)
        remark       == Remark(base_balance, seq_list)
        profit_after_tax == nearest_ten(profit)
        updated_balance  == nearest_ten(base_balance + profit_after_tax)
        next_round   == round_num + 1
        next_percent == percentages[next_round]
        invest_amount == percent_of(base_balance, next_percent)
        d6           == Put(d5, "Round", next_round)
        d7           == Put(d6, "TotalPlaced", d6["TotalPlaced"] + invest_amount)
    IN  IF SessionEnds(data, round_num, total_rounds)
        THEN [d |-> EmptyDict, terminal |-> TRUE,
              out |-> [kind |-> "summary", round |-> round_num, data |-> data[2],
                       path |-> path, base |-> base_balance,
                       wins |-> wins, losses |-> losses,
                       placed |-> d5["TotalPlaced"],
                       profit |-> nearest_ten(profit),
                       after_tax |-> nearest_ten(profit_after_tax),
                       balance |-> nearest_ten(updated_balance),
                       seq |-> seq_list, remark |-> remark,
                       all_profits |-> all_profits]]
        ELSE [d |-> d7, terminal |-> FALSE,
              out |-> [kind |-> "round", from |-> "result", round |-> next_round,
                       stake |-> invest_amount, pct |-> next_percent,
                       base |-> base_balance, data |-> data[2],
                       path |-> path, handled |-> round_num]]

handle_result(u, data) ==
    /\ UNCHANGED <<authVars, calc>>
    /\ IF reject_if_banned(u)
       THEN /\ out' = [out EXCEPT ![u] = Msg("banned")]
            /\ UNCHANGED <<user_data, ghost>>
       ELSE IF server_block_check(u)
       THEN /\ out' = [out EXCEPT ![u] = Msg("shutdown")]
            /\ UNCHANGED <<user_data, ghost>>
       ELSE IF ~_is_admin(u) /\ ~is_authorized(u, AUTHORIZED_USERS)
       THEN /\ out' = [out EXCEPT ![u] = Msg("no_auth")]
            /\ UNCHANGED <<user_data, ghost>>
       ELSE /\ Len(Get(user_data[u], "seq", <<>>)) < MaxSeq
            /\ LET r == ResultInput(user_data[u], data)
                   g == ghost[u]
               IN  /\ user_data' = [user_data EXCEPT ![u] = r.d]
                   /\ out' = [out EXCEPT ![u] = r.out]
                   /\ ghost' = [ghost EXCEPT ![u] =
                          IF g.started /\ ~g.ended
                          THEN [g EXCEPT !.ended = r.terminal,
                                         !.results = Append(@, IF EndsWithWin(data) THEN "W" ELSE "L")]
                          ELSE NoGhost]

\* ------------------------------------------------------------------------
\* Authorization requests, approval and revocation (main.py 734-914)
\* ------------------------------------------------------------------------
\* the text of a user id is the user's name here; "x" is not a number
IdTexts == Users \cup {"x"}

\* /authorize
authorize_cmd(u) ==
    /\ UNCHANGED <<user_data, BANNED_USERS, AUTHORIZED_USERS, REVOKED_USERS,
                   SERVER_DOWN, ghost, calc>>
    /\ IF _is_admin(u)
       THEN /\ out' = [out EXCEPT ![u] = Msg("admin_full_access")]
            /\ UNCHANGED files
       ELSE IF u \in BANNED_USERS
       THEN /\ out' = [out EXCEPT ![u] = Msg("banned")]
            /\ UNCHANGED files
       ELSE IF is_authorized(u, AUTHORIZED_USERS)
       THEN /\ out' = [out EXCEPT ![u] = Msg("already_access")]
            /\ UNCHANGED files
       ELSE IF is_revoked_today(u, REVOKED_USERS)
       THEN /\ out' = [out EXCEPT ![u] = Msg("revoked")]
            /\ UNCHANGED files
       ELSE IF u \in files.pending
       THEN /\ out' = [out EXCEPT ![u] = Msg("already_queued")]
            /\ UNCHANGED files
       ELSE /\ files' = [files EXCEPT !.pending = @ \cup {u}]
            /\ out' = [out EXCEPT ![u] = Msg("request_submitted")]

\* the Approve / Reject buttons under a request: data is <<action, uid>>
AuthData == {"auth_approve", "auth_reject"} \X NonAdmins

admin_approve_reject_handler(sender, data) ==
    /\ UNCHANGED <<user_data, BANNED_USERS, AUTHORIZED_USERS, REVOKED_USERS,
                   SERVER_DOWN, ghost, calc>>
    /\ IF ~_is_admin(sender)
       THEN /\ out' = [out EXCEPT ![sender] = Msg("not_admin")]
            /\ UNCHANGED files
       ELSE LET action == data[1]
                uid == data[2]
            IN  IF action = "auth_approve"
                THEN /\ files' = [files EXCEPT !.pending = @ \ {uid},
                                               !.authorized = @ \cup {uid}]
                     /\ out' = [[out EXCEPT ![uid] = Msg("auth_approved")]
                                     EXCEPT ![sender] = Msg("approved")]
                ELSE IF action = "auth_reject"
                THEN /\ files' = [files EXCEPT !.pending = @ \ {uid}]
                     /\ out' = [[out EXCEPT ![uid] = Msg("auth_denied")]
                                     EXCEPT ![sender] = Msg("rejected")]
                ELSE UNCHANGED <<files, out>>

\* the buttons of the Manage Authorizations menu
ManageData == {"manage_list_pending", "manage_revoke_user"}

admin_manage_callback(sender, data) ==
    /\ UNCHANGED <<authVars, ghost, calc>>
    /\ IF ~_is_admin(sender)
       THEN /\ out' = [out EXCEPT ![sender] = Msg("not_admin")]
            /\ UNCHANGED user_data
       ELSE IF data = "manage_list_pending"
       THEN /\ out' = [out EXCEPT ![sender] =
                         IF files.pending = {} THEN Msg("no_pending")
                         ELSE [kind |-> "pending_list", ids |-> files.pending]]
            /\ UNCHANGED user_data
       ELSE IF data = "manage_revoke_user"
       THEN /\ out' = [out EXCEPT ![sender] = Msg("send_id")]
            /\ user_data' = [user_data EXCEPT ![sender] =
                                 Put(@, "admin_action", "revoke_user")]
       ELSE UNCHANGED <<user_data, out>>

\* the handler of the admin's text after "Revoke user".  main() registers it
\* behind process_balance in the same handler group (main.py 1319-1324).
admin_followup_authorization(sender, text) ==
    /\ UNCHANGED <<BANNED_USERS, AUTHORIZED_USERS, REVOKED_USERS, SERVER_DOWN,
                   ghost, calc>>
    /\ IF ~_is_admin(sender) \/ Get(user_data[sender], "admin_action", "") = ""
       THEN UNCHANGED <<user_data, files, out>>
       ELSE IF Get(user_data[sender], "admin_action", "") = "revoke_user"
       THEN IF text \notin Users
            THEN /\ out' = [out EXCEPT ![sender] = Msg("invalid_id")]
                 /\ user_data' = [user_data EXCEPT ![sender] = Pop(@, "admin_action")]
                 /\ UNCHANGED files
            ELSE LET uid == text
                 IN  /\ files' = [authorized |-> files.authorized \ {uid},
                                  revoked |-> files.revoked \cup {uid},
                                  pending |-> files.pending \ {uid}]
                     /\ out' = [[out EXCEPT ![uid] = Msg("revoked")]
                                     EXCEPT ![sender] = Msg("revoked_done")]
                     /\ user_data' = [user_data EXCEPT ![sender] = Pop(@, "admin_action")]
       ELSE UNCHANGED <<user_data, files, out>>

\* ------------------------------------------------------------------------
\* Shutdown mode and the ban list (main.py 937-975, 1253-1268)
\* ------------------------------------------------------------------------
AdminData == {"admin_shutdown", "admin_reboot"}

admin_callback(sender, data) ==
    /\ UNCHANGED <<user_data, BANNED_USERS, AUTHORIZED_USERS, REVOKED_USERS,
                   files, ghost, calc>>
    /\ IF ~_is_admin(sender)
       THEN /\ out' = [out EXCEPT ![sender] = Msg("not_admin")]
            /\ UNCHANGED SERVER_DOWN
       ELSE IF data = "admin_shutdown"
       THEN /\ SERVER_DOWN' = TRUE
            /\ out' = [out EXCEPT ![sender] = Msg("shutdown_enabled")]
       ELSE IF data = "admin_reboot"
       THEN /\ SERVER_DOWN' = FALSE
            /\ out' = [out EXCEPT ![sender] = Msg("back_online")]
       ELSE UNCHANGED <<SERVER_DOWN, out>>

\* /ban <user_id>
ban_cmd_direct(sender, arg) ==
    /\ UNCHANGED <<user_data, AUTHORIZED_USERS, REVOKED_USERS, SERVER_DOWN,
                   files, ghost, calc>>
    /\ IF ~_is_admin(sender)
       THEN UNCHANGED <<BANNED_USERS, out>>
       ELSE IF arg \notin Users
       THEN /\ out' = [out EXCEPT ![sender] = Msg("invalid_id")]
            /\ UNCHANGED BANNED_USERS
       ELSE /\ BANNED_USERS' = BANNED_USERS \cup {arg}
            /\ out' = [out EXCEPT ![sender] = Msg("banned_done")]

\* ------------------------------------------------------------------------
\* Stake calculator alone
\* ------------------------------------------------------------------------
SchedulePcts == {CASE1[i] : i \in 1..Len(CASE1)} \cup {CASE2[i] : i \in 1..Len(CASE2)}

StakeCalc ==
    /\ ~calc.done
    /\ calc' = [calc EXCEPT !.stake = percent_of(calc.balance, calc.pct), !.done = TRUE]
    /\ UNCHANGED <<user_data, authVars, out, ghost>>

\* ------------------------------------------------------------------------
\* Daily estimate and compounding alone (main.py 581-593, 1173-1178)
\* ------------------------------------------------------------------------
EstimateCalc ==
    /\ ~calc.done
    /\ calc' = [calc EXCEPT !.daily = compute_weighted_daily_profit(calc.balance),
                            !.result = compound_days(calc.balance, calc.days),
                            !.done = TRUE]
    /\ UNCHANGED <<user_data, authVars, out, ghost>>

\* ------------------------------------------------------------------------
\* The simulator alone, on a sequence and on the sequence with a tail
\* (main.py 517-542)
\* ------------------------------------------------------------------------
TagSeqs(n) == UNION {[1..k -> {"W", "L"}] : k \in 0..n}

SimTailCalc ==
    /\ ~calc.done
    /\ calc' = [calc EXCEPT
                   !.profit = simulate_session_profit_for_path(calc.balance, calc.s),
                   !.extended = simulate_session_profit_for_path(calc.balance, calc.s \o calc.t),
                   !.done = TRUE]
    /\ UNCHANGED <<user_data, authVars, out, ghost>>

\* ------------------------------------------------------------------------
\* The simulator called twice with the same arguments, with session events
\* and other simulations in between
\* ------------------------------------------------------------------------
SimCall ==
    /\ calc.calls < 2
    /\ calc' = [calc EXCEPT
                   !.first  = IF calc.calls = 0
                              THEN simulate_session_profit_for_path(calc.balance, calc.s)
                              ELSE @,
                   !.second = IF calc.calls = 1
                              THEN simulate_session_profit_for_path(calc.balance, calc.s)
                              ELSE @,
                   !.calls = @ + 1]
    /\ UNCHANGED <<user_data, authVars, out, ghost>>

\* a simulation of another sequence
OtherSim ==
    /\ calc.calls = 1
    /\ \E i \in 1..Len(generate_possible_outcome_sequences) :
          calc' = [calc EXCEPT !.other =
                      simulate_session_profit_for_path(calc.balance,
                          generate_possible_outcome_sequences[i])]
    /\ UNCHANGED <<user_data, authVars, out, ghost>>

ProcessBalanceBetween == \E text \in TextsTwo : process_balance(U1, text)

HandleResultBetween ==
    \E data \in ResultData :
        /\ ghost[U1].started /\ ~ghost[U1].ended /\ ghost[U1].fresh
        /\ handle_result(U1, data)

\* ------------------------------------------------------------------------
\* Specifications
\* ------------------------------------------------------------------------
Players == {U1}

Init ==
    /\ user_data = [u \in Users |-> EmptyDict]
    /\ BANNED_USERS \in SUBSET NonAdmins
    /\ AUTHORIZED_USERS \in SUBSET NonAdmins
    /\ REVOKED_USERS = {}      \* no revocation dated today is on file at start
    /\ SERVER_DOWN = FALSE
    /\ files = LoadedFiles
    /\ out = [u \in Users |-> Msg("none")]
    /\ ghost = [u \in Users |-> NoGhost]
    /\ calc = [balance |-> 0, pct |-> CASE1[1], stake |-> 0, done |-> TRUE]

StartGame == \E u \in Players : start_game(u)

ProcessBalance == \E u \in Players : \E text \in Texts : process_balance(u, text)

HandleResult == \E u \in Players : \E data \in ResultData : handle_result(u, data)

Clear == \E u \in Players : clear(u)

Next == StartGame \/ ProcessBalance \/ HandleResult \/ Clear

Spec == Init /\ [][Next]_vars

\* the stake calculator applied to every balance up to MaxBal and every
\* percentage of the schedules
InitStake ==
    /\ user_data = [u \in Users |-> EmptyDict]
    /\ BANNED_USERS = {}
    /\ AUTHORIZED_USERS = {}
    /\ REVOKED_USERS = {}
    /\ SERVER_DOWN = FALSE
    /\ files = LoadedFiles
    /\ out = [u \in Users |-> Msg("none")]
    /\ ghost = [u \in Users |-> NoGhost]
    /\ calc \in [balance : 0..MaxBal, pct : SchedulePcts, stake : {0}, done : {FALSE}]

SpecStake == InitStake /\ [][StakeCalc]_vars

\* the daily estimate and the compounding applied to every balance up to
\* MaxBal and every number of days up to MaxDays
InitEstimate ==
    /\ user_data = [u \in Users |-> EmptyDict]
    /\ BANNED_USERS = {}
    /\ AUTHORIZED_USERS = {}
    /\ REVOKED_USERS = {}
    /\ SERVER_DOWN = FALSE
    /\ files = LoadedFiles
    /\ out = [u \in Users |-> Msg("none")]
    /\ ghost = [u \in Users |-> NoGhost]
    /\ calc \in [balance : 0..MaxBal, days : 0..MaxDays,
                  daily : {0}, result : {0}, done : {FALSE}]

SpecEstimate == InitEstimate /\ [][EstimateCalc]_vars

\* the simulator applied to every balance up to MaxBal, every enumerated
\* sequence and every tail of at most MaxExtra tags
InitSimTail ==
    /\ user_data = [u \in Users |-> EmptyDict]
    /\ BANNED_USERS = {}
    /\ AUTHORIZED_USERS = {}
    /\ REVOKED_USERS = {}
    /\ SERVER_DOWN = FALSE
    /\ files = LoadedFiles
    /\ out = [u \in Users |-> Msg("none")]
    /\ ghost = [u \in Users |-> NoGhost]
    /\ calc \in [balance : 0..MaxBal,
                  s : {generate_possible_outcome_sequences[i] :
                          i \in 1..Len(generate_possible_outcome_sequences)},
                  t : TagSeqs(MaxExtra),
                  profit : {0}, extended : {0}, done : {FALSE}]

SpecSimTail == InitSimTail /\ [][SimTailCalc]_vars

\* two calls of the simulator around the events of a session
InitSimTwice ==
    /\ user_data = [u \in Users |-> EmptyDict]
    /\ BANNED_USERS = {}
    /\ AUTHORIZED_USERS = {U1}
    /\ REVOKED_USERS = {}
    /\ SERVER_DOWN = FALSE
    /\ files = LoadedFiles
    /\ out = [u \in Users |-> Msg("none")]
    /\ ghost = [u \in Users |-> NoGhost]
    /\ calc \in [balance : {0, 500, MaxBal},
                  s : {generate_possible_outcome_sequences[i] :
                          i \in 1..Len(generate_possible_outcome_sequences)},
                  first : {0}, second : {0}, other : {0}, calls : {0}]

NextSimTwice == SimCall \/ OtherSim \/ ProcessBalanceBetween \/ HandleResultBetween

SpecSimTwice == InitSimTwice /\ [][NextSimTwice]_vars


\* one session from the acceptance of its balance to its summary, for every
\* balance up to MaxBal: the state after /start and a typed balance, then
\* results only
InitSession ==
    /\ \E value \in 0..MaxBal :
          LET r == StartSession(start_game_flow(EmptyDict), value)
          IN  /\ user_data = [u \in Users |-> IF u = U1 THEN r.d ELSE EmptyDict]
              /\ out = [u \in Users |-> IF u = U1 THEN r.out ELSE Msg("none")]
              /\ ghost = [u \in Users |->
                            IF u = U1
                            THEN [started |-> TRUE, fresh |-> TRUE, ended |-> FALSE,
                                  results |-> <<>>, base |-> r.out.base]
                            ELSE NoGhost]
    /\ BANNED_USERS = {}
    /\ AUTHORIZED_USERS = {U1}
    /\ REVOKED_USERS = {}
    /\ SERVER_DOWN = FALSE
    /\ files = LoadedFiles
    /\ calc = [balance |-> 0, pct |-> CASE1[1], stake |-> 0, done |-> TRUE]

HandleResultSession ==
    \E data \in ResultData :
        /\ ghost[U1].started /\ ~ghost[U1].ended
        /\ handle_result(U1, data)

SpecSession == InitSession /\ [][HandleResultSession]_vars

\* two players, the admin and an authorized user, whose events interleave
\* in any order
PlayersTwo == {ADMIN_ID, U1}

InitTwo ==
    /\ user_data = [u \in Users |-> EmptyDict]
    /\ BANNED_USERS = {}
    /\ AUTHORIZED_USERS = {U1}
    /\ REVOKED_USERS = {}
    /\ SERVER_DOWN = FALSE
    /\ files = LoadedFiles
    /\ out = [u \in Users |-> Msg("none")]
    /\ ghost = [u \in Users |-> NoGhost]
    /\ calc = [balance |-> 0, pct |-> CASE1[1], stake |-> 0, done |-> TRUE]

StartGameTwo == \E u \in PlayersTwo : start_game(u)

ProcessBalanceTwo == \E u \in PlayersTwo : \E text \in TextsTwo : process_balance(u, text)

\* a result button is pressed in a running session that began on a clean state
HandleResultTwo ==
    \E u \in PlayersTwo : \E data \in ResultData :
        /\ ghost[u].started /\ ~ghost[u].ended /\ ghost[u].fresh
        /\ handle_result(u, data)

ClearTwo == \E u \in PlayersTwo : clear(u)

NextTwo == StartGameTwo \/ ProcessBalanceTwo \/ HandleResultTwo \/ ClearTwo

SpecTwo == InitTwo /\ [][NextTwo]_vars

\* one user asks for access and plays, the admin approves, rejects and revokes
TextsAccess == { <<"5", "0", "0">> }

InitAdmin ==
    /\ user_data = [u \in Users |-> EmptyDict]
    /\ BANNED_USERS = {}
    /\ AUTHORIZED_USERS \in SUBSET NonAdmins
    /\ REVOKED_USERS = {}
    /\ SERVER_DOWN = FALSE
    /\ files = LoadedFiles
    /\ out = [u \in Users |-> Msg("none")]
    /\ ghost = [u \in Users |-> NoGhost]
    /\ calc = [balance |-> 0, pct |-> CASE1[1], stake |-> 0, done |-> TRUE]

StartGameAdmin == \E u \in NonAdmins : start_game(u)

ProcessBalanceAdmin ==
    \E u \in NonAdmins : \E text \in TextsAccess : process_balance(u, text)

HandleResultAdmin ==
    \E u \in NonAdmins : \E data \in ResultData :
        /\ ghost[u].started /\ ~ghost[u].ended /\ ghost[u].fresh
        /\ handle_result(u, data)

Authorize == \E u \in Users : authorize_cmd(u)

\* the admin presses a button under a request that is in the queue
ApproveReject ==
    \E data \in AuthData :
        /\ data[2] \in files.pending
        /\ admin_approve_reject_handler(ADMIN_ID, data)

Manage == \E data \in ManageData : admin_manage_callback(ADMIN_ID, data)

\* the admin's text reaches the revoke follow-up
Followup ==
    \E text \in IdTexts :
        /\ "admin_action" \in DOMAIN user_data[ADMIN_ID]
        /\ admin_followup_authorization(ADMIN_ID, text)

NextAdmin ==
    \/ StartGameAdmin \/ ProcessBalanceAdmin \/ HandleResultAdmin
    \/ Authorize \/ ApproveReject \/ Manage \/ Followup

SpecAdmin == InitAdmin /\ [][NextAdmin]_vars

\* two players under the ban list and the shutdown mode
InitGuard ==
    /\ user_data = [u \in Users |-> EmptyDict]
    /\ BANNED_USERS = {}
    /\ AUTHORIZED_USERS \in SUBSET NonAdmins
    /\ REVOKED_USERS = {}
    /\ SERVER_DOWN = FALSE
    /\ files = LoadedFiles
    /\ out = [u \in Users |-> Msg("none")]
    /\ ghost = [u \in Users |-> NoGhost]
    /\ calc = [balance |-> 0, pct |-> CASE1[1], stake |-> 0, done |-> TRUE]

ProcessBalanceGuard ==
    \E u \in PlayersTwo : \E text \in TextsAccess : process_balance(u, text)

\* a result button exists once a session has begun
HandleResultGuard ==
    \E u \in PlayersTwo : \E data \in ResultData :
        /\ ghost[u].started /\ ~ghost[u].ended /\ ghost[u].fresh
        /\ handle_result(u, data)

Ban == \E arg \in Users : ban_cmd_direct(ADMIN_ID, arg)

AdminCallback == \E data \in AdminData : admin_callback(ADMIN_ID, data)

NextGuard ==
    \/ ProcessBalanceGuard \/ HandleResultGuard
    \/ Ban \/ AdminCallback

SpecGuard == InitGuard /\ [][NextGuard]_vars


\* ------------------------------------------------------------------------
\* Helpers of the properties
\* ------------------------------------------------------------------------
\* the last event of u was a result that handle_result processed
ResultHandled(u) ==
    \/ out[u].kind = "summary"
    \/ out[u].kind = "round" /\ out[u].from = "result"

\* u's summary closes a session that a balance submission started and that
\* only result events drove
SessionSummarised(u) ==
    out[u].kind = "summary" /\ ghost[u].started /\ ghost[u].ended

\* ------------------------------------------------------------------------
\* C1: the net profit of the summary of a session started by a balance
\* submission and driven only by results equals
\* simulate_session_profit_for_path(base_balance, realized sequence).
\* (stated as claimed; the stored profit is floored after every leg, the
\* simulator floors once at the end)
\* ------------------------------------------------------------------------
C1_SummaryProfitIsSimulated ==
    \A u \in Users :
        SessionSummarised(u) =>
            out[u].profit = simulate_session_profit_for_path(out[u].base, ghost[u].results)

\* ------------------------------------------------------------------------
\* C2: after the result of round n the session is terminal iff (Win and
\* n > 1) or n >= length of the schedule of the case; a round-1 Win never
\* ends it, a Lose ends it only in round 5 (Case A) or round 3 (Case B);
\* the session state is discarded exactly when it is terminal.
\* ------------------------------------------------------------------------
C2_TerminalIff ==
    \A u \in Users :
        /\ ResultHandled(u) =>
              LET n        == IF out[u].kind = "summary" THEN out[u].round ELSE out[u].handled
                  win      == out[u].data = "win"
                  len      == Len(Percentages(out[u].path))
                  terminal == out[u].kind = "summary"
              IN  /\ terminal <=> ((win /\ n > 1) \/ n >= len)
                  /\ terminal <=> user_data[u] = EmptyDict
                  /\ (win /\ n = 1) => ~terminal
                  /\ (~win /\ terminal) => n = (IF out[u].path = "case1" THEN 5 ELSE 3)
        /\ (ghost[u].started /\ Len(ghost[u].results) > 0) =>
              LET r   == ghost[u].results
                  n   == Len(r)
                  len == IF r[1] = "W" THEN 5 ELSE 3
              IN  ghost[u].ended <=> ((r[n] = "W" /\ n > 1) \/ n >= len)

C2_Witness ==
    \E u \in Users :
        /\ SessionSummarised(u)
        /\ out[u].round = 5 /\ out[u].data = "lose"
        /\ ghost[u].results = <<"W", "L", "L", "L", "L">>

\* ------------------------------------------------------------------------
\* C3: the case (Path) becomes case1/case2 only when a round-1 result is
\* handled (Win -> case1, Lose -> case2); a result of round 2 or later
\* looks its schedule up with the stored case and leaves the stored case
\* unchanged unless it ends the session.
\* ------------------------------------------------------------------------
C3_CaseSetOnceInRound1 ==
    [][ \A u \in Users :
          LET before == Get(user_data[u], "Path", "None")
              after  == Get(user_data'[u], "Path", "None")
          IN  /\ (after # before /\ after \in {"case1", "case2"}) =>
                    /\ out'[u].kind = "round" /\ out'[u].from = "result"
                    /\ out'[u].handled = 1
                    /\ after = (IF out'[u].data = "win" THEN "case1" ELSE "case2")
              \* a step of u that ends with the output of a handled result
              /\ ( (out'[u] # out[u] \/ user_data'[u] # user_data[u])
                   /\ (out'[u].kind = "summary"
                          \/ (out'[u].kind = "round" /\ out'[u].from = "result"))
                   /\ Get(user_data[u], "Round", 1) >= 2 ) =>
                     ( (out'[u].path = before)
                       /\ (out'[u].kind = "round" =>
                             (after = before /\ out'[u].handled = user_data[u]["Round"]))
                       /\ (out'[u].kind = "summary" =>
                             out'[u].round = user_data[u]["Round"]) )
      ]_vars

C3_Witness ==
    \E u \in Users :
        /\ out[u].kind = "round" /\ out[u].from = "result"
        /\ out[u].handled = 2 /\ out[u].path = "case2"
        /\ user_data[u]["Path"] = "case2" /\ user_data[u]["Round"] = 3

\* ------------------------------------------------------------------------
\* C4: a result event that arrives while no session is active (no balance
\* stored) is rejected: it changes no session field and announces neither
\* a stake nor a summary.  (stated as claimed)
\* ------------------------------------------------------------------------
C4_ResultWithoutSessionRejected ==
    [][ \A u \in Users : \A data \in ResultData :
          (handle_result(u, data) /\ "BaseBalance" \notin DOMAIN user_data[u]) =>
              /\ user_data'[u] = user_data[u]
              /\ out'[u].kind \notin {"round", "summary"}
      ]_vars


\* ------------------------------------------------------------------------
\* C5: when process_balance accepts a balance every session field is at its
\* default afterwards: round 1, case unset, no wins, no losses, profit 0 and
\* an empty outcome sequence, also in the middle of a previous session.
\* (stated as claimed; process_balance never touches the "seq" key)
\* ------------------------------------------------------------------------
C5_BalanceResetsEveryField ==
    \A u \in Users :
        (out[u].kind = "round" /\ out[u].from = "balance") =>
            LET d == user_data[u]
            IN  /\ d["Round"] = 1 /\ d["Path"] = "None"
                /\ d["Wins"] = 0 /\ d["Losses"] = 0 /\ d["Profit"] = 0
                /\ Get(d, "seq", <<>>) = <<>>

\* ------------------------------------------------------------------------
\* C6: during a session the outcome sequence holds one tag per result
\* handled since the balance was set, in order; its length is wins + losses.
\* (stated as claimed)
\* ------------------------------------------------------------------------
C6_SeqHoldsTheSessionResults ==
    \A u \in Users :
        "BaseBalance" \in DOMAIN user_data[u] =>
            LET d   == user_data[u]
                seq == Get(d, "seq", <<>>)
            IN  /\ seq = ghost[u].results
                /\ Len(seq) = d["Wins"] + d["Losses"]

\* ------------------------------------------------------------------------
\* C7: TotalPlaced is the sum of the stakes of the rounds placed so far,
\* each counted once; the amount placed of the summary is the sum of
\* percent_of(base, schedule(case)[i]) over the rounds played.
\* (stated as claimed)
\* ------------------------------------------------------------------------
RECURSIVE SumStakes(_, _, _)
SumStakes(base, pcts, n) ==
    IF n = 0 THEN 0 ELSE SumStakes(base, pcts, n - 1) + percent_of(base, pcts[n])

C7_TotalPlacedIsSumOfStakes ==
    \A u \in Users :
        /\ "BaseBalance" \in DOMAIN user_data[u] =>
              LET d    == user_data[u]
                  pcts == IF d["Path"] = "None" THEN CASE1 ELSE Percentages(d["Path"])
              IN  d["TotalPlaced"] = SumStakes(d["BaseBalance"], pcts, d["Round"])
        /\ SessionSummarised(u) =>
              out[u].placed = SumStakes(out[u].base, Percentages(out[u].path), out[u].round)

\* ------------------------------------------------------------------------
\* C8: generate_possible_outcome_sequences returns exactly WW, WLW, WLLW,
\* WLLLW, WLLLL (Case A) and LW, LLW, LLL (Case B), each once, none empty.
\* ------------------------------------------------------------------------
EightSequences ==
    { <<"W", "W">>, <<"W", "L", "W">>, <<"W", "L", "L", "W">>,
      <<"W", "L", "L", "L", "W">>, <<"W", "L", "L", "L", "L">>,
      <<"L", "W">>, <<"L", "L", "W">>, <<"L", "L", "L">> }

C8_EnumeratorReturnsTheEight ==
    \A u \in Users :
        out[u].kind = "summary" =>
            LET seqs == [i \in 1..Len(out[u].all_profits) |-> out[u].all_profits[i][1]]
            IN  /\ seqs = generate_possible_outcome_sequences
                /\ Len(seqs) = 8
                /\ {seqs[i] : i \in 1..Len(seqs)} = EightSequences
                /\ \A i, j \in 1..Len(seqs) : seqs[i] = seqs[j] => i = j
                /\ \A i \in 1..Len(seqs) : seqs[i] # <<>>
                /\ \A i \in 1..Len(seqs) :
                      Len(seqs[i]) <= (IF seqs[i][1] = "W" THEN 5 ELSE 3)

\* a summary whose remark was drawn from the enumeration
C8_Witness ==
    \E u \in Users :
        /\ out[u].kind = "summary" /\ out[u].base = 1000
        /\ Len(out[u].all_profits) = 8
        /\ out[u].seq = <<"L", "L", "L">>
        /\ out[u].remark = "Worst possible scenario"

\* ------------------------------------------------------------------------
\* C9: the enumerated sequences are exactly the outcome sequences with which
\* a live session, started by a balance submission and driven only by
\* results, reaches its summary; started on a clean state, the sequence the
\* summary reports is the realized one.
\* ------------------------------------------------------------------------
EnumeratedSet ==
    LET seqs == generate_possible_outcome_sequences
    IN  {seqs[i] : i \in 1..Len(seqs)}

\* handle_result applied to the tags of s from index i on, from dict d:
\* every result before the last announces a round, the last one summarises
RECURSIVE ReplayEndsExactly(_, _, _)
ReplayEndsExactly(d, s, i) ==
    LET r == ResultInput(d, <<i, IF s[i] = "W" THEN "win" ELSE "lose">>)
    IN  IF i = Len(s) THEN r.terminal /\ r.out.seq = s
        ELSE ~r.terminal /\ ReplayEndsExactly(r.d, s, i + 1)

C9_EnumeratedIffLiveTerminal ==
    \A u \in Users :
        \* every realized terminal sequence is enumerated, and every enumerated
        \* sequence ends a session of this balance exactly at its last tag
        /\ SessionSummarised(u) =>
              /\ ghost[u].results \in EnumeratedSet
              /\ ghost[u].fresh => out[u].seq = ghost[u].results
              /\ \A s \in EnumeratedSet :
                    ReplayEndsExactly(
                        StartSession(start_game_flow(EmptyDict), out[u].base).d, s, 1)
        \* a session still in a round has not played an enumerated sequence
        /\ (ghost[u].started /\ ~ghost[u].ended) =>
              ghost[u].results \notin EnumeratedSet

C9_Witness ==
    \E u \in Users :
        /\ SessionSummarised(u) /\ ghost[u].fresh
        /\ out[u].seq = <<"W", "L", "L", "L", "W">>
        /\ ghost[u].results = out[u].seq

\* ------------------------------------------------------------------------
\* C10: for every non-negative balance and every percentage of the two
\* schedules, percent_of(balance, pct) is a multiple of ten, at most
\* balance*pct/100 and more than balance*pct/100 - 10;
\* 1000 at 10% gives 100, 1005 at 10% gives 100, 996 at 10% gives 90.
\* ------------------------------------------------------------------------
C10_StakeIsFloorToTen ==
    calc.done =>
        /\ calc.stake % 10 = 0
        /\ 100 * calc.stake <= calc.balance * calc.pct
        /\ 100 * calc.stake > calc.balance * calc.pct - 1000
        /\ (calc.balance = 1000 /\ calc.pct = 10) => calc.stake = 100
        /\ (calc.balance = 1005 /\ calc.pct = 10) => calc.stake = 100
        /\ (calc.balance = 996 /\ calc.pct = 10) => calc.stake = 90

C10_Witness == calc.done /\ calc.balance = 996 /\ calc.pct = 10 /\ calc.stake = 90

\* ------------------------------------------------------------------------
\* C11: accepting a balance puts the session in round 1 and announces the
\* stake floor-to-ten of 10% of the balance while the case is unset; a
\* non-terminal result of round n announces round n+1 with the stake
\* floor-to-ten of base * schedule(case)[n+1] percent, the base balance
\* being the one stored before the result and left unchanged by it:
\* 10,15,30,50 percent in rounds 2..5 of case1, 25,65 in rounds 2..3 of
\* case2 (base 1000: 100,150,300,500 and 250,650).
\* ------------------------------------------------------------------------
SchedulePct(path, round_no) ==
    IF path = "case1"
    THEN (CASE round_no = 2 -> 10 [] round_no = 3 -> 15
            [] round_no = 4 -> 30 [] round_no = 5 -> 50 [] OTHER -> 0 - 1)
    ELSE (CASE round_no = 2 -> 25 [] round_no = 3 -> 65 [] OTHER -> 0 - 1)

Stake1000(path, round_no) ==
    IF path = "case1"
    THEN (CASE round_no = 2 -> 100 [] round_no = 3 -> 150
            [] round_no = 4 -> 300 [] round_no = 5 -> 500 [] OTHER -> 0 - 1)
    ELSE (CASE round_no = 2 -> 250 [] round_no = 3 -> 650 [] OTHER -> 0 - 1)

C11_AnnouncedStakeFollowsSchedule ==
    [][ \A u \in Users :
          LET o  == out'[u]
              d  == user_data[u]
              d2 == user_data'[u]
          IN  ( (out'[u] # out[u] \/ user_data'[u] # user_data[u])
                /\ o.kind = "round" ) =>
                  IF o.from = "balance"
                  THEN /\ o.round = 1 /\ d2["Round"] = 1 /\ d2["Path"] = "None"
                       /\ o.base = d2["BaseBalance"]
                       /\ o.stake = ((o.base * 10) \div 1000) * 10
                       /\ (o.base = 1000 => o.stake = 100)
                  ELSE /\ o.handled = Get(d, "Round", 1)
                       /\ o.round = o.handled + 1 /\ d2["Round"] = o.round
                       /\ o.path \in {"case1", "case2"} /\ d2["Path"] = o.path
                       /\ o.base = Get(d, "BaseBalance", 0)
                       /\ Get(d2, "BaseBalance", 0) = Get(d, "BaseBalance", 0)
                       /\ o.pct = SchedulePct(o.path, o.round)
                       /\ o.stake = ((o.base * o.pct) \div 1000) * 10
                       /\ (o.base = 1000 => o.stake = Stake1000(o.path, o.round))
      ]_vars

C11_Witness ==
    \E u \in Users :
        /\ out[u].kind = "round" /\ out[u].from = "result"
        /\ out[u].base = 1000 /\ out[u].path = "case1"
        /\ out[u].round = 5 /\ out[u].stake = 500
        /\ user_data[u]["BaseBalance"] = 1000

\* ------------------------------------------------------------------------
\* C12: a handled result of round n changes the net profit by one leg.  With
\* stake = floor-to-ten of base * pct(n) percent: a Win makes the profit
\* floor-to-ten of (old profit + 0.9 * stake) and adds one to wins only; a
\* Lose makes it floor-to-ten of (old profit - stake), untaxed, and adds
\* one to losses only.  The new figures are the stored ones when the
\* session goes on and the reported ones when it ends.
\* ------------------------------------------------------------------------
RoundPct(path, round_no) == IF round_no = 1 THEN 10 ELSE SchedulePct(path, round_no)

C12_OneLegPerResult ==
    [][ \A u \in Users :
          LET o  == out'[u]
              d  == user_data[u]
              d2 == user_data'[u]
              handled == o.kind = "summary" \/ (o.kind = "round" /\ o.from = "result")
              n      == Get(d, "Round", 1)
              base   == Get(d, "BaseBalance", 0)
              stake  == ((base * RoundPct(o.path, n)) \div 1000) * 10
              old    == Get(d, "Profit", 0)
              new    == IF o.kind = "summary" THEN o.profit ELSE d2["Profit"]
              wins   == IF o.kind = "summary" THEN o.wins ELSE Get(d2, "Wins", 0)
              losses == IF o.kind = "summary" THEN o.losses ELSE Get(d2, "Losses", 0)
          IN  ( (out'[u] # out[u] \/ user_data'[u] # user_data[u]) /\ handled ) =>
                  /\ new % 10 = 0
                  /\ IF o.data = "win"
                     THEN /\ 10 * new <= 10 * old + 9 * stake
                          /\ 10 * old + 9 * stake < 10 * new + 100
                          /\ wins = Get(d, "Wins", 0) + 1
                          /\ losses = Get(d, "Losses", 0)
                     ELSE /\ new <= old - stake
                          /\ old - stake < new + 10
                          /\ wins = Get(d, "Wins", 0)
                          /\ losses = Get(d, "Losses", 0) + 1
      ]_vars

\* base 500: the round-1 Win adds 45 and 40 is stored
C12_Witness ==
    \E u \in Users :
        /\ out[u].kind = "round" /\ out[u].from = "result"
        /\ out[u].handled = 1 /\ out[u].data = "win" /\ out[u].base = 500
        /\ user_data[u]["Profit"] = 40 /\ user_data[u]["Wins"] = 1
        /\ user_data[u]["Losses"] = 0

\* ------------------------------------------------------------------------
\* C13: in every summary the "profit after tax" figure equals the net
\* profit figure, the updated balance is floor-to-ten of base balance +
\* net profit, and the rounds played equal wins + losses.
\* ------------------------------------------------------------------------
C13_SummaryFigures ==
    \A u \in Users :
        out[u].kind = "summary" =>
            /\ out[u].after_tax = out[u].profit
            /\ out[u].balance % 10 = 0
            /\ out[u].balance <= out[u].base + out[u].profit
            /\ out[u].base + out[u].profit < out[u].balance + 10
            /\ out[u].round = out[u].wins + out[u].losses

\* base 500, Win then Win: profit 80 and balance 580 after two rounds
C13_Witness ==
    \E u \in Users :
        /\ SessionSummarised(u) /\ out[u].base = 500
        /\ ghost[u].results = <<"W", "W">>
        /\ out[u].profit = 80 /\ out[u].after_tax = 80 /\ out[u].balance = 580
        /\ out[u].round = 2 /\ out[u].wins = 2 /\ out[u].losses = 0

\* ------------------------------------------------------------------------
\* C14: a text typed as the balance that is not a number or that denotes a
\* negative number is rejected and changes no session field (base balance,
\* round, case, wins, losses, total staked, net profit, outcome sequence),
\* also in the middle of a session.
\* (stated as claimed; "-.0009k" denotes -0.9, int(-0.9) is 0 and the text
\* is accepted as the balance 0)
\* ------------------------------------------------------------------------
SessionKeys ==
    {"BaseBalance", "Round", "Path", "Wins", "Losses", "TotalPlaced", "Profit", "seq"}

SessionFields(d) == [k \in DOMAIN d \cap SessionKeys |-> d[k]]

\* a minus sign in front of a number that is not zero
NegativeText(t) ==
    Len(t) > 1 /\ t[1] = "-" /\ \E i \in 2..Len(t) : t[i] \in Digits \ {"0"}

NonNumericText(t) ==
    \E i \in 1..Len(t) : UpperChar(t[i]) \notin Digits \cup {".", "-", "K"}

C14_RejectedBalanceChangesNothing ==
    [][ \A u \in Users : \A text \in TypedTexts :
          ( (NegativeText(text) \/ NonNumericText(text))
            /\ process_balance(u, text) ) =>
              /\ SessionFields(user_data'[u]) = SessionFields(user_data[u])
              /\ out'[u].kind # "round"
      ]_vars

\* ------------------------------------------------------------------------
\* C15: with two players, a balance, result, /start or /clear event of one
\* player leaves every session field of the other player unchanged, in
\* every interleaving of their events.
\* ------------------------------------------------------------------------
EventOf(u) ==
    \/ start_game(u)
    \/ clear(u)
    \/ \E text \in TextsTwo : process_balance(u, text)
    \/ \E data \in ResultData :
          ghost[u].started /\ ~ghost[u].ended /\ ghost[u].fresh /\ handle_result(u, data)

C15_PlayersAreIndependent ==
    [][ \A u \in PlayersTwo : \A v \in PlayersTwo \ {u} :
          EventOf(u) =>
              /\ SessionFields(user_data'[v]) = SessionFields(user_data[v])
              /\ user_data'[v] = user_data[v]
      ]_vars

\* both players are in the middle of a session, in different rounds and cases
C15_Witness ==
    /\ "BaseBalance" \in DOMAIN user_data[ADMIN_ID]
    /\ "BaseBalance" \in DOMAIN user_data[U1]
    /\ user_data[ADMIN_ID]["Round"] = 4 /\ user_data[ADMIN_ID]["Path"] = "case1"
    /\ user_data[U1]["Round"] = 2 /\ user_data[U1]["Path"] = "case2"
    /\ ghost[ADMIN_ID].results = <<"W", "L", "L">>
    /\ ghost[U1].results = <<"L">>

\* ------------------------------------------------------------------------
\* C16: compute_weighted_daily_profit(balance) is floor-to-ten of
\* 0.8 * worst + 0.2 * avg_others: worst is the least simulated profit of
\* the enumerated sequences, avg_others the mean of the profits of the
\* sequences whose profit is not worst (one term per sequence), and worst
\* itself when no sequence differs (balance 0 gives 0).
\* ------------------------------------------------------------------------
RECURSIVE SumProfits(_, _)
SumProfits(balance, S) ==
    IF S = {} THEN 0
    ELSE LET s == CHOOSE x \in S : TRUE
         IN  simulate_session_profit_for_path(balance, s) + SumProfits(balance, S \ {s})

WorstProfit(balance) ==
    CHOOSE m \in {simulate_session_profit_for_path(balance, s) : s \in EightSequences} :
        \A s \in EightSequences : m <= simulate_session_profit_for_path(balance, s)

OtherSequences(balance) ==
    {s \in EightSequences : simulate_session_profit_for_path(balance, s) # WorstProfit(balance)}

C16_WeightedIsFloorOfBlend ==
    calc.done =>
        LET worst == WorstProfit(calc.balance)
            O     == OtherSequences(calc.balance)
            n     == Cardinality(O)
            sum   == SumProfits(calc.balance, O)
            r     == calc.daily
        IN  /\ r % 10 = 0
            /\ IF n > 0
               THEN \* r <= (4*worst + sum/n) / 5 < r + 10
                    /\ 5 * n * r <= 4 * worst * n + sum
                    /\ 4 * worst * n + sum < 5 * n * (r + 10)
               ELSE r <= worst /\ worst < r + 10
            /\ (calc.balance = 0 => r = 0)
            /\ (calc.balance = 1000 => r = 0 - 810)

C16_Witness == calc.done /\ calc.balance = 1000 /\ calc.daily = 0 - 810

\* ------------------------------------------------------------------------
\* C17: compounding over zero days returns the starting balance unchanged.
\* ------------------------------------------------------------------------
C17_ZeroDaysIsIdentity ==
    (calc.done /\ calc.days = 0) => calc.result = calc.balance

C17_Witness ==
    calc.done /\ calc.days = 0 /\ calc.balance = 1005 /\ calc.result = 1005

\* ------------------------------------------------------------------------
\* C18: in the compounding every day's profit is the weighted daily profit
\* of the balance reached the day before, and the balance after the day is
\* floor-to-ten of that balance plus that profit; compounding d1 + d2 days
\* equals compounding d2 days from the result of compounding d1 days.
\* ------------------------------------------------------------------------
C18_CompoundingComposes ==
    calc.done =>
        /\ \A d1 \in 0..calc.days :
              compound_days(compound_days(calc.balance, d1), calc.days - d1) = calc.result
        /\ calc.days > 0 =>
              LET before == compound_days(calc.balance, calc.days - 1)
                  profit == compute_weighted_daily_profit(before)
              IN  /\ calc.result % 10 = 0
                  /\ calc.result <= before + profit
                  /\ before + profit < calc.result + 10
        /\ (calc.balance = 1000 /\ calc.days = 2) => calc.result = 50

\* 1000 -> 190 -> 50 -> 10: the daily profits are -810, -140 and -30
C18_Witness ==
    calc.done /\ calc.days = 3 /\ calc.balance = 1000 /\ calc.result = 10

\* ------------------------------------------------------------------------
\* C19: simulate_session_profit_for_path ignores every tag after the point
\* where the sequence is terminal: for every balance, every enumerated
\* sequence s and every tail t, the profit of s followed by t is the
\* profit of s.
\* ------------------------------------------------------------------------
C19_TailIsIgnored ==
    calc.done => calc.extended = calc.profit

\* base 1000: W,W gives 180 whatever follows
C19_Witness ==
    /\ calc.done /\ calc.balance = 1000
    /\ calc.s = <<"W", "W">> /\ calc.t = <<"L", "W">>
    /\ calc.profit = 180 /\ calc.extended = 180

C21_BaseBalanceFixedInSession ==
    \A u \in Users :
        /\ (ghost[u].started /\ ~ghost[u].ended) =>
              /\ user_data[u]["BaseBalance"] = ghost[u].base
              /\ out[u].kind = "round" =>
                    /\ out[u].base = ghost[u].base
                    /\ out[u].stake = ((ghost[u].base * out[u].pct) \div 1000) * 10
        /\ SessionSummarised(u) =>
              /\ out[u].base = ghost[u].base
              /\ out[u].balance <= ghost[u].base + out[u].profit
              /\ ghost[u].base + out[u].profit < out[u].balance + 10

\* base 500 after three results: round 4 of case1 is announced with 150
C21_Witness ==
    \E u \in Users :
        /\ ghost[u].started /\ ~ghost[u].ended /\ ghost[u].base = 500
        /\ ghost[u].results = <<"W", "L", "L">>
        /\ user_data[u]["BaseBalance"] = 500 /\ user_data[u]["Profit"] # 0
        /\ out[u].kind = "round" /\ out[u].round = 4 /\ out[u].stake = 150

\* ------------------------------------------------------------------------
\* C22: the stake of a round is added to TotalPlaced when the round is
\* announced, before its result: after an accepted balance TotalPlaced is
\* the round-1 stake, after a non-terminal result of round n it has grown
\* by at least the stake announced for round n+1, and no result of a
\* session makes it smaller (the amount placed of the summary included).
\* ------------------------------------------------------------------------
C22_StakeAddedWhenAnnounced ==
    [][ \A u \in Users :
          LET o      == out'[u]
              before == Get(user_data[u], "TotalPlaced", 0)
              after  == Get(user_data'[u], "TotalPlaced", 0)
          IN  (out'[u] # out[u] \/ user_data'[u] # user_data[u]) =>
                  /\ (o.kind = "round" /\ o.from = "balance") =>
                        after = ((o.base * 10) \div 1000) * 10
                  /\ (o.kind = "round" /\ o.from = "result") =>
                        /\ after >= before + ((o.base * o.pct) \div 1000) * 10
                        /\ after >= before
                  /\ o.kind = "summary" => o.placed >= before
      ]_vars

\* base 500: the stake 50 of round 2 is in TotalPlaced when round 2 is announced
C22_Witness ==
    \E u \in Users :
        /\ out[u].kind = "round" /\ out[u].from = "result"
        /\ out[u].round = 2 /\ out[u].base = 500 /\ out[u].stake = 50
        /\ ghost[u].started /\ ghost[u].results = <<"W">>
        /\ user_data[u]["TotalPlaced"] >= 100

\* ------------------------------------------------------------------------
\* C23: the remark of the summary classifies the realized sequence by its
\* simulated profit among the enumerated sequences of the base balance:
\* "Worst possible scenario" exactly when the profit is the minimum, "Best
\* possible scenario" exactly when it is the maximum and not the minimum,
\* "Moderate performance" otherwise, also when sequences tie on profit.
\* (stated as claimed; the code compares the sequence with the first and
\* the last entry of the list sorted by profit, not the profits)
\* ------------------------------------------------------------------------
BestProfit(balance) ==
    CHOOSE m \in {simulate_session_profit_for_path(balance, s) : s \in EightSequences} :
        \A s \in EightSequences : m >= simulate_session_profit_for_path(balance, s)

C23_RemarkClassifiesByProfit ==
    \A u \in Users :
        (SessionSummarised(u) /\ ghost[u].fresh) =>
            LET p     == simulate_session_profit_for_path(out[u].base, ghost[u].results)
                worst == WorstProfit(out[u].base)
                best  == BestProfit(out[u].base)
            IN  /\ out[u].remark = "Worst possible scenario" <=> p = worst
                /\ out[u].remark = "Best possible scenario" <=> (p = best /\ p # worst)
                /\ out[u].remark = "Moderate performance" <=> (p # best /\ p # worst)

\* ------------------------------------------------------------------------
\* C24: a session ends after at most 5 handled results, at most 3 when the
\* round-1 result is Lose: a running session has handled fewer results
\* than that, the result that reaches the limit ends it, and the result
\* that ends it sends the summary and discards the session state.
\* ------------------------------------------------------------------------
C24_SessionEndsWithinLimit ==
    \A u \in Users :
        ghost[u].started =>
            LET r     == ghost[u].results
                limit == IF Len(r) > 0 /\ r[1] = "L" THEN 3 ELSE 5
            IN  /\ Len(r) <= limit
                /\ ~ghost[u].ended =>
                      (Len(r) < limit /\ "BaseBalance" \in DOMAIN user_data[u])
                /\ ghost[u].ended =>
                      /\ Len(r) >= 2
                      /\ "BaseBalance" \notin DOMAIN user_data[u]
                      /\ out[u].kind = "summary" =>
                            (user_data[u] = EmptyDict /\ out[u].round = Len(r))

\* three losses end a session of the short schedule
C24_Witness ==
    \E u \in Users :
        /\ ghost[u].started /\ ghost[u].ended
        /\ ghost[u].results = <<"L", "L", "L">>
        /\ out[u].kind = "summary" /\ out[u].round = 3
        /\ user_data[u] = EmptyDict

\* ------------------------------------------------------------------------
\* C25: under every sequence of balance, result, /start and /clear events,
\* results after the end of a session or after a reset included, the round
\* number with which handle_result indexes the schedule is at least 1 and
\* at most the length of the schedule of the case it uses, for a Win as
\* for a Lose; the round it announces next is within the schedule too.
\* ------------------------------------------------------------------------
C25_RoundWithinSchedule ==
    \A u \in Users :
        LET d         == user_data[u]
            round_num == Get(d, "Round", 1)
            path      == Get(d, "Path", "None")
        IN  /\ round_num >= 1
            /\ \A data \in ResultData :
                  round_num <= Len(Percentages(SelectPath(round_num, path, data)))
            /\ (out[u].kind = "round" /\ out[u].from = "result") =>
                  (out[u].round >= 1 /\ out[u].round <= Len(Percentages(out[u].path)))

\* results pressed with no session have reached round 3
C25_Witness ==
    \E u \in Users :
        /\ "BaseBalance" \notin DOMAIN user_data[u]
        /\ out[u].kind = "round" /\ out[u].from = "result"
        /\ Get(user_data[u], "Round", 1) = 3 /\ user_data[u]["Path"] = "case2"

\* ------------------------------------------------------------------------
\* C26: a result whose callback data names round k is applied only while
\* the session is in round k: a duplicate or stale press of the button of
\* another round changes neither the round nor the profit nor any other
\* session field and announces nothing.
\* (stated as claimed; handle_result reads only the suffix of the data)
\* ------------------------------------------------------------------------
C26_StaleResultNotApplied ==
    [][ \A u \in Users : \A data \in ResultData :
          ( handle_result(u, data)
            /\ "BaseBalance" \in DOMAIN user_data[u]
            /\ data[1] # user_data[u]["Round"] ) =>
              /\ SessionFields(user_data'[u]) = SessionFields(user_data[u])
              /\ out'[u].kind \notin {"round", "summary"}
      ]_vars

\* ------------------------------------------------------------------------
\* C27: for every base balance that is a non-negative multiple of ten and
\* every sequence of results, the updated balance of the summary is not
\* negative: the net profit of a session is at least minus its base.
\* ------------------------------------------------------------------------
C27_UpdatedBalanceNotNegative ==
    \A u \in Users :
        SessionSummarised(u) =>
            /\ out[u].base % 10 = 0 /\ out[u].base >= 0
            /\ out[u].balance >= 0
            /\ out[u].base + out[u].profit >= 0

\* base 200, three losses: the whole base is lost and nothing more
C27_Witness ==
    \E u \in Users :
        /\ SessionSummarised(u) /\ out[u].base = 200
        /\ ghost[u].results = <<"L", "L", "L">>
        /\ out[u].profit = 0 - 200 /\ out[u].balance = 0

\* ------------------------------------------------------------------------
\* C28: in every reachable state the stored net profit and the stored
\* total staked are multiples of ten.
\* ------------------------------------------------------------------------
C28_StoredAmountsAreTens ==
    \A u \in Users :
        /\ Get(user_data[u], "Profit", 0) % 10 = 0
        /\ Get(user_data[u], "TotalPlaced", 0) % 10 = 0

\* base 500 after a lost round 1: profit -50, 50 + 50 + 120 placed
C28_Witness ==
    \E u \in Users :
        /\ "BaseBalance" \in DOMAIN user_data[u] /\ user_data[u]["BaseBalance"] = 500
        /\ user_data[u]["Round"] = 2 /\ user_data[u]["Path"] = "case2"
        /\ user_data[u]["Profit"] = 0 - 50
        /\ user_data[u]["TotalPlaced"] = 220

\* ------------------------------------------------------------------------
\* C29: in a session started by a balance submission at most one Win is
\* recorded after round 1 and it is the last result; the recorded wins are
\* at most 2, and 2 only if round 1 was a Win; the recorded losses are at
\* most 4 in case1 and at most 3 in case2.
\* ------------------------------------------------------------------------
CountTag(r, tag) == Cardinality({i \in 1..Len(r) : r[i] = tag})

C29_WinsAndLossesBounded ==
    \A u \in Users :
        (ghost[u].started /\ Len(ghost[u].results) > 0) =>
            LET r      == ghost[u].results
                wins   == IF ghost[u].ended THEN CountTag(r, "W")
                          ELSE Get(user_data[u], "Wins", 0)
                losses == IF ghost[u].ended THEN CountTag(r, "L")
                          ELSE Get(user_data[u], "Losses", 0)
            IN  /\ \A i \in 2..Len(r) : r[i] = "W" => (i = Len(r) /\ ghost[u].ended)
                /\ wins = CountTag(r, "W") /\ losses = CountTag(r, "L")
                /\ SessionSummarised(u) =>
                      (out[u].wins = wins /\ out[u].losses = losses)
                /\ wins <= 2
                /\ wins = 2 => r[1] = "W"
                /\ losses <= (IF r[1] = "W" THEN 4 ELSE 3)

\* Win, Lose, Lose, Win: two wins, the second one ends the session
C29_Witness ==
    \E u \in Users :
        /\ SessionSummarised(u)
        /\ ghost[u].results = <<"W", "L", "L", "W">>
        /\ out[u].wins = 2 /\ out[u].losses = 2

\* ------------------------------------------------------------------------
\* C30: for every balance that is a non-negative multiple of ten,
\* compute_weighted_daily_profit(balance) is at least the least and at most
\* the greatest simulated session profit, balance plus it is not negative,
\* and the compounded balance is not negative after any number of days.
\* ------------------------------------------------------------------------
C30_DailyProfitWithinRange ==
    (calc.done /\ calc.balance % 10 = 0) =>
        /\ calc.daily >= WorstProfit(calc.balance)
        /\ calc.daily <= BestProfit(calc.balance)
        /\ calc.balance + calc.daily >= 0
        /\ calc.result >= 0
        /\ \A d \in 0..calc.days : compound_days(calc.balance, d) >= 0

\* balance 200: the daily figure is -160, between -200 and 40
C30_Witness ==
    /\ calc.done /\ calc.balance = 200 /\ calc.daily = 0 - 160
    /\ WorstProfit(200) = 0 - 200 /\ BestProfit(200) = 40
    /\ calc.days = MaxDays /\ calc.result >= 0

\* ------------------------------------------------------------------------
\* C31: after the admin approves the pending request of user u, u is
\* authorized in the running process: u's next /start, balance submission
\* or result event is not refused for lack of authorization.
\* ------------------------------------------------------------------------
\* /start, a balance submission or a result event of user u
AccessEvent(u) ==
    \/ start_game(u)
    \/ \E text \in TextsAccess : process_balance(u, text)
    \/ \E data \in ResultData : handle_result(u, data)

C31_ApprovedUserHasAccess ==
    [][ \A u \in NonAdmins :
          (u \in files.authorized /\ u \notin files.revoked /\ AccessEvent(u))
              => out'[u].kind # "no_auth"
      ]_vars

\* ------------------------------------------------------------------------
\* C32: after the admin revokes user u through the revoke follow-up, u's
\* next /start, balance submission or result event is denied, and a
\* /authorize of u on the same day is refused as being in cooldown.
\* ------------------------------------------------------------------------
C32_RevokedUserIsDenied ==
    [][ \A u \in NonAdmins :
          u \in files.revoked =>
              /\ AccessEvent(u) => out'[u].kind \in {"revoked", "no_auth"}
              /\ authorize_cmd(u) => out'[u] = Msg("revoked")
      ]_vars

\* ------------------------------------------------------------------------
\* C33: a balance submission or result event of a non-admin user who is
\* banned, or not authorized, or acts in shutdown mode changes no session
\* field; no step leaves the admin with the reply of a ban, shutdown or
\* authorization refusal; /ban <u> puts u on the
\* ban list at once and the next balance or result event of u is refused
\* as banned.
\* ------------------------------------------------------------------------
BalanceOrResult(u) ==
    \/ \E text \in TextsAccess : process_balance(u, text)
    \/ \E data \in ResultData : handle_result(u, data)

Blocked(u) ==
    ~_is_admin(u) /\ (u \in BANNED_USERS \/ ~is_authorized(u, AUTHORIZED_USERS) \/ SERVER_DOWN)

C33_BlockedEventsChangeNothing ==
    [][ /\ \A u \in Users :
              (Blocked(u) /\ BalanceOrResult(u)) =>
                  /\ SessionFields(user_data'[u]) = SessionFields(user_data[u])
                  /\ user_data'[u] = user_data[u]
        /\ out'[ADMIN_ID].kind \notin {"banned", "shutdown", "no_auth"}
        /\ \A u \in NonAdmins :
              /\ ban_cmd_direct(ADMIN_ID, u) => u \in BANNED_USERS'
              /\ (u \in BANNED_USERS /\ BalanceOrResult(u)) => out'[u] = Msg("banned")
      ]_vars

\* the user was banned in the middle of a session and has been refused; the
\* admin, on the ban list too, has played two rounds; shutdown mode is on
C33_Witness ==
    /\ BANNED_USERS = Users
    /\ SERVER_DOWN
    /\ out[U1] = Msg("banned")
    /\ "Round" \in DOMAIN user_data[U1] /\ user_data[U1]["Round"] = 2
    /\ ghost[ADMIN_ID].results = <<"L", "W">>
    /\ out[ADMIN_ID].kind \notin {"none", "banned_done", "shutdown_enabled"}

=============================================================================
